---- MODULE Spec2Model ----
(***************************************************************************)
(* A model of src/src/osmdata.cpp: get_osm_relations, get_osm_ways,            *)
(* get_osm_nodes and the way partition of rcpp_osmdata_sf.                 *)
(*                                                                         *)
(* Strings (std::string) are sequences of one-character strings, so that   *)
(* std::set <std::string> ordering, std::to_string and the stringstream    *)
(* concatenations are computed rather than assumed.                        *)
(***************************************************************************)
EXTENDS Integers, Sequences, FiniteSets, TLC

(***************************************************************************)
(* Bounds of the model.                                                    *)
(***************************************************************************)
MaxRels == 2
MaxMembers == 2
MaxWays == 2
MaxWayLen == 2
MaxNodes == 2

(***************************************************************************)
(* std::string: comparison, std::to_string, sorted std::set.               *)
(***************************************************************************)
AsciiOrder ==
    << " ", "(", ")", "-", "0", "1", "2", "3", "4", "5", "6", "7", "8", "9",
       "a", "b", "c", "d", "e", "f", "g", "h", "i", "j", "k", "l", "m", "n",
       "o", "p", "q", "r", "s", "t", "u", "v", "w", "x", "y", "z" >>

CharCode(c) == CHOOSE i \in 1..Len(AsciiOrder) : AsciiOrder[i] = c

\* std::less <std::string>: lexicographic comparison of the characters
StrLess(s, t) ==
    \E i \in 1..Len(t) :
        /\ \A j \in 1..(i - 1) : j <= Len(s) /\ s[j] = t[j]
        /\ (i > Len(s) \/ CharCode(s[i]) < CharCode(t[i]))

Digits == << "0", "1", "2", "3", "4", "5", "6", "7", "8", "9" >>

RECURSIVE to_string(_)
to_string(n) ==
    IF n < 10 THEN << Digits[n + 1] >>
    ELSE to_string(n \div 10) \o << Digits[(n % 10) + 1] >>

\* iteration order of a std::set <std::string>: begin () .. end ()
RECURSIVE SetIter(_)
SetIter(S) ==
    IF S = {} THEN << >>
    ELSE LET first == CHOOSE x \in S : \A y \in S \ {x} : StrLess(x, y)
         IN  << first >> \o SetIter(S \ {first})

\* std::distance (s.begin (), s.find (key)); s.size () when key is not found
SetFindDistance(S, key) ==
    IF key \in S THEN Cardinality({x \in S : StrLess(x, key)})
    ELSE Cardinality(S)

NA_STRING == << "NA" >>
BlankString == << >>


(***************************************************************************)
(* The state: the locals of get_osm_relations (lines 139-175), of          *)
(* rcpp_osmdata_sf (506), and of get_osm_ways / get_osm_nodes.             *)
(***************************************************************************)
VARIABLES
    pc, err,
    \* get_osm_relations
    rels, itr, role_i, nmp, nls, kv_mat_mp, kv_mat_ls, count_mp, count_ls,
    lon_vec, lat_vec, rowname_vec, ids_mp, ids_ls, roles, roles_ls,
    rel_id_mp, rel_id_ls,
    lon_arr_mp, lat_arr_mp, rowname_arr_mp, id_vec_mp,
    lon_arr_ls, lat_arr_ls, rowname_arr_ls, id_vec_ls,
    row_overrun, ret,
    \* history: the arrays that a structural check has been given
    checked,
    \* rcpp_osmdata_sf, get_osm_ways, get_osm_nodes
    ways, nodes, k_point, itw, poly_ways, non_poly_ways,
    call, geom_type, way_ids, wayList, ptList, kv_df, kv_mat, count,
    waynames, ptnames, list_attr, col_overrun

relVars ==
    << rels, itr, role_i, nmp, nls, kv_mat_mp, kv_mat_ls, count_mp, count_ls,
       lon_vec, lat_vec, rowname_vec, ids_mp, ids_ls, roles, roles_ls,
       rel_id_mp, rel_id_ls,
       lon_arr_mp, lat_arr_mp, rowname_arr_mp, id_vec_mp,
       lon_arr_ls, lat_arr_ls, rowname_arr_ls, id_vec_ls,
       row_overrun, checked, ret >>

sfVars ==
    << ways, nodes, k_point, itw, poly_ways, non_poly_ways,
       call, geom_type, way_ids, wayList, ptList, kv_df, kv_mat, count,
       waynames, ptnames, list_attr, col_overrun >>

vars == << pc, err, relVars, sfVars >>

(***************************************************************************)
(* The entity graph read by get_osm_relations.  Every member way and every *)
(* node it references is present in the maps.                              *)
(***************************************************************************)
RelNodes == [id \in 1..3 |-> [lon |-> 10 * id, lat |-> 10 * id + 1]]

RelWays == (1 :> << 1, 2, 1 >>) @@ (2 :> << 2, 3 >>)

NoRole == << >>
Role_b == << "b" >>
Role_ab == << "a", "b" >>
Role_outer == << "o", "u", "t", "e", "r" >>
Role_inner == << "i", "n", "n", "e", "r" >>
Roles == { NoRole, Role_b, Role_ab }

Key_name == << "n", "a", "m", "e" >>
Key_type == << "t", "y", "p", "e" >>
\* unique_vals.k_rel
k_rel == { Key_name, Key_type }

RelId(i) == 7 * i + 5

\* Relation::key_val of the i-th relation; every value names the relation
RelTags(i) ==
    IF i % 2 = 1 THEN (Key_type :> to_string(RelId(i)))
    ELSE (Key_name :> to_string(RelId(i))) @@ (Key_type :> << "r" >>)

RoleLists == UNION { [1..n -> Roles] : n \in 0..MaxMembers }

PolyRoleList(n) == [p \in 1..n |-> IF p = 1 THEN Role_outer ELSE Role_inner]

RelShapes ==
    { [ispoly |-> FALSE, rl |-> r] : r \in RoleLists }
    \cup { [ispoly |-> TRUE, rl |-> PolyRoleList(n)] : n \in 0..MaxMembers }

\* Relation: id, ispoly, ways (vector of (way id, role) pairs), key_val
Relation(i, sh) ==
    [ id |-> RelId(i),
      ispoly |-> sh.ispoly,
      ways |-> [p \in 1..Len(sh.rl) |-> << ((p - 1) % 2) + 1, sh.rl[p] >>],
      key_val |-> RelTags(i) ]

(***************************************************************************)
(* trace_osm.h, convert_osm_rcpp.h and cleanup.h are not part of the       *)
(* source at hand; the operators below follow the specification text.      *)
(***************************************************************************)
TraceLon(w) == [p \in 1..Len(RelWays[w]) |-> RelNodes[RelWays[w][p]].lon]
TraceLat(w) == [p \in 1..Len(RelWays[w]) |-> RelNodes[RelWays[w][p]].lat]
TraceNames(w) == [p \in 1..Len(RelWays[w]) |-> to_string(RelWays[w][p])]

\* the members of a relation carrying one role, in declared order
RECURSIVE MembersWithRole(_, _)
MembersWithRole(ws, role) ==
    IF ws = << >> THEN << >>
    ELSE (IF Head(ws)[2] = role THEN << Head(ws)[1] >> ELSE << >>)
         \o MembersWithRole(Tail(ws), role)

MemberIds(ws) == [p \in 1..Len(ws) |-> ws[p][1]]

\* trace_multipolygon: one ring entry per member way, appended to the buffers
trace_multipolygon(rel, buf) ==
    LET ms == MemberIds(rel.ways)
    IN  [ lon |-> buf.lon \o [p \in 1..Len(ms) |-> TraceLon(ms[p])],
          lat |-> buf.lat \o [p \in 1..Len(ms) |-> TraceLat(ms[p])],
          rowname |-> buf.rowname \o [p \in 1..Len(ms) |-> TraceNames(ms[p])],
          ids |-> buf.ids \o [p \in 1..Len(ms) |-> to_string(ms[p])] ]

\* trace_multilinestring: the member ways of one role, in declared order
trace_multilinestring(rel, role, buf) ==
    LET ms == MembersWithRole(rel.ways, role)
    IN  [ lon |-> buf.lon \o [p \in 1..Len(ms) |-> TraceLon(ms[p])],
          lat |-> buf.lat \o [p \in 1..Len(ms) |-> TraceLat(ms[p])],
          rowname |-> buf.rowname \o [p \in 1..Len(ms) |-> TraceNames(ms[p])],
          ids |-> buf.ids \o ms ]

\* the attribute row of one entity: one cell per key of the sorted key set
AttributeRow(key_val, keys) ==
    LET cols == SetIter(keys)
    IN  [c \in 1..Len(cols) |->
            IF cols[c] \in DOMAIN key_val THEN key_val[cols[c]] ELSE NA_STRING]

\* get_value_mat_rel (itr, rels, unique_vals, value_arr, rowi): row rowi of
\* the matrix becomes the relation's attribute row (rowi counts from 0)
get_value_mat_rel(rel, value_arr, rowi) ==
    IF rowi < Len(value_arr)
    THEN [value_arr EXCEPT ![rowi + 1] = AttributeRow(rel.key_val, k_rel)]
    ELSE value_arr

\* clean_vecs (v1, v2, v3): the three vectors are emptied
clean_vecs(v1, v2, v3) == << << >>, << >>, << >> >>

\* Rcpp::CharacterMatrix (Rcpp::Dimension (nrow, ncol)): blank cells
CharacterMatrix(nrow, ncol) ==
    [r \in 1..nrow |-> [c \in 1..ncol |-> BlankString]]

(***************************************************************************)
(* get_osm_relations                                                       *)
(***************************************************************************)
\* lines 162-164 and 196-198: the std::set of the roles of a relation's members
roles_set(rel) == { rel.ways[p][2] : p \in DOMAIN rel.ways }

\* a mutation of RolesPushed: one role per member, duplicates kept
RolesPushedPerMember(rel) == [p \in 1..Len(rel.ways) |-> rel.ways[p][2]]

\* lines 199-201: the roles pushed onto the roles vector, in set order
RolesPushed(rel) == SetIter(roles_set(rel))

\* a mutation of RelLabel: the empty role is not labelled apart
RelLabelNoSpecialCase(id, role) == to_string(id) \o << "-" >> \o role

\* lines 207-213: the label of one multilinestring
RelLabel(id, role) ==
    IF role = << >>
    THEN to_string(id) \o << "-", "(", "n", "o", " ", "r", "o", "l", "e", ")" >>
    ELSE to_string(id) \o << "-" >> \o role

\* a mutation of PreCountLs: one row per member instead of one per role
PreCountLsPerMember(rel) == IF rel.ispoly THEN 0 ELSE Len(rel.ways)

\* lines 157 and 165: the contribution of one relation to nmp and nls
PreCountMp(rel) == IF rel.ispoly THEN 1 ELSE 0
PreCountLs(rel) == IF rel.ispoly THEN 0 ELSE Cardinality(roles_set(rel))

\* mutations of NextCountMp and NextCountLs: the row index does not advance
NextCountMpStuck(n) == n
NextCountLsStuck(n) == n

\* line 191: count_mp++, and line 220: count_ls++
NextCountMp(n) == n + 1
NextCountLs(n) == n + 1

R_NilValue == [null |-> TRUE]

\* the locals of the other functions, while get_osm_relations runs
IdleSfVars ==
    /\ ways = << >>
    /\ nodes = << >>
    /\ k_point = {}
    /\ itw = 1
    /\ poly_ways = {}
    /\ non_poly_ways = {}
    /\ call = "none"
    /\ geom_type = "none"
    /\ way_ids = {}
    /\ wayList = << >>
    /\ ptList = << >>
    /\ kv_df = R_NilValue
    /\ kv_mat = << >>
    /\ count = 0
    /\ waynames = << >>
    /\ ptnames = << >>
    /\ list_attr = R_NilValue
    /\ col_overrun = FALSE

RelLocalsInit ==
    /\ itr = 1
    /\ role_i = 1
    /\ nmp = 0
    /\ nls = 0
    /\ kv_mat_mp = << >>
    /\ kv_mat_ls = << >>
    /\ count_mp = 0
    /\ count_ls = 0
    /\ lon_vec = << >>
    /\ lat_vec = << >>
    /\ rowname_vec = << >>
    /\ ids_mp = << >>
    /\ ids_ls = << >>
    /\ roles = << >>
    /\ roles_ls = << >>
    /\ rel_id_mp = << >>
    /\ rel_id_ls = << >>
    /\ lon_arr_mp = << >>
    /\ lat_arr_mp = << >>
    /\ rowname_arr_mp = << >>
    /\ id_vec_mp = << >>
    /\ lon_arr_ls = << >>
    /\ lat_arr_ls = << >>
    /\ rowname_arr_ls = << >>
    /\ id_vec_ls = << >>
    /\ row_overrun = FALSE
    /\ checked = {}
    /\ ret = R_NilValue

InitRelVars ==
    /\ \E n \in 0..MaxRels : \E sh \in [1..n -> RelShapes] :
          rels = [i \in 1..n |-> Relation(i, sh[i])]
    /\ RelLocalsInit

\* the locals of get_osm_relations, while the other functions run
IdleRelVars ==
    /\ rels = << >>
    /\ RelLocalsInit

InitRel ==
    /\ pc = "precount"
    /\ err = "none"
    /\ InitRelVars
    /\ IdleSfVars

mpArrs == << rel_id_mp, lon_arr_mp, lat_arr_mp, rowname_arr_mp, id_vec_mp >>
lsArrs == << rel_id_ls, lon_arr_ls, lat_arr_ls, rowname_arr_ls, id_vec_ls >>
scratch == << lon_vec, lat_vec, rowname_vec, ids_mp, ids_ls >>

\* a vector that is not emptied
clearLeftOut(v) == v

\* lines 190, 219, 223: ids_mp.clear (), ids_ls.clear (), roles.clear ()
clear(v) == << >>

\* lines 154-167: one iteration of the counting loop
PreCount ==
    /\ pc = "precount"
    /\ itr <= Len(rels)
    /\ nmp' = nmp + PreCountMp(rels[itr])
    /\ nls' = nls + PreCountLs(rels[itr])
    /\ itr' = itr + 1
    /\ UNCHANGED sfVars
    /\ UNCHANGED << pc, err, rels, role_i, kv_mat_mp, kv_mat_ls, count_mp,
                    count_ls, scratch, roles, roles_ls, mpArrs, lsArrs,
                    row_overrun, ret, checked >>

\* lines 169-175: the attribute matrices are dimensioned from nmp and nls
AllocMats ==
    /\ pc = "precount"
    /\ itr > Len(rels)
    /\ kv_mat_mp' = CharacterMatrix(nmp, Cardinality(k_rel))
    /\ kv_mat_ls' = CharacterMatrix(nls, Cardinality(k_rel))
    /\ count_mp' = 0
    /\ count_ls' = 0
    /\ itr' = 1
    /\ pc' = "main"
    /\ UNCHANGED sfVars
    /\ UNCHANGED << err, rels, role_i, nmp, nls, scratch, roles, roles_ls,
                    mpArrs, lsArrs, row_overrun, ret, checked >>

\* lines 179-191: one polygon-type relation
MultiPolygon ==
    /\ pc = "main"
    /\ itr <= Len(rels)
    /\ rels[itr].ispoly
    /\ LET t == trace_multipolygon(rels[itr],
                    [lon |-> lon_vec, lat |-> lat_vec,
                     rowname |-> rowname_vec, ids |-> ids_mp])
       IN  /\ rel_id_mp' = Append(rel_id_mp, to_string(rels[itr].id))
           /\ lon_arr_mp' = Append(lon_arr_mp, t.lon)
           /\ lat_arr_mp' = Append(lat_arr_mp, t.lat)
           /\ rowname_arr_mp' = Append(rowname_arr_mp, t.rowname)
           /\ id_vec_mp' = Append(id_vec_mp, t.ids)
           /\ LET c == clean_vecs(t.lon, t.lat, t.rowname)
              IN  /\ lon_vec' = c[1]
                  /\ lat_vec' = c[2]
                  /\ rowname_vec' = c[3]
           /\ ids_mp' = clear(t.ids)
    /\ kv_mat_mp' = get_value_mat_rel(rels[itr], kv_mat_mp, count_mp)
    /\ row_overrun' = (row_overrun \/ count_mp >= Len(kv_mat_mp))
    /\ count_mp' = NextCountMp(count_mp)
    /\ itr' = itr + 1
    /\ UNCHANGED sfVars
    /\ UNCHANGED << pc, err, rels, role_i, nmp, nls, kv_mat_ls, count_ls,
                    ids_ls, roles, roles_ls, lsArrs, ret, checked >>

\* lines 196-202: the roles of a non-polygon relation
BuildRoles ==
    /\ pc = "main"
    /\ itr <= Len(rels)
    /\ ~ rels[itr].ispoly
    /\ roles' = roles \o RolesPushed(rels[itr])
    /\ role_i' = 1
    /\ pc' = "roles"
    /\ UNCHANGED sfVars
    /\ UNCHANGED << err, rels, itr, nmp, nls, kv_mat_mp, kv_mat_ls, count_mp,
                    count_ls, scratch, roles_ls, mpArrs, lsArrs, row_overrun,
                    ret, checked >>

\* lines 203-221: one role of a non-polygon relation
OneRole ==
    /\ pc = "roles"
    /\ role_i <= Len(roles)
    /\ LET role == roles[role_i]
           t == trace_multilinestring(rels[itr], role,
                    [lon |-> lon_vec, lat |-> lat_vec,
                     rowname |-> rowname_vec, ids |-> ids_ls])
       IN  /\ rel_id_ls' = Append(rel_id_ls, RelLabel(rels[itr].id, role))
           /\ lon_arr_ls' = Append(lon_arr_ls, t.lon)
           /\ lat_arr_ls' = Append(lat_arr_ls, t.lat)
           /\ rowname_arr_ls' = Append(rowname_arr_ls, t.rowname)
           /\ id_vec_ls' = Append(id_vec_ls, t.ids)
           /\ LET c == clean_vecs(t.lon, t.lat, t.rowname)
              IN  /\ lon_vec' = c[1]
                  /\ lat_vec' = c[2]
                  /\ rowname_vec' = c[3]
           /\ ids_ls' = clear(t.ids)
    /\ kv_mat_ls' = get_value_mat_rel(rels[itr], kv_mat_ls, count_ls)
    /\ row_overrun' = (row_overrun \/ count_ls >= Len(kv_mat_ls))
    /\ count_ls' = NextCountLs(count_ls)
    /\ role_i' = role_i + 1
    /\ UNCHANGED sfVars
    /\ UNCHANGED << pc, err, rels, itr, nmp, nls, kv_mat_mp, count_mp,
                    ids_mp, roles, roles_ls, mpArrs, ret, checked >>

\* lines 222-223: the roles of the relation are stored and the vector cleared
EndRoles ==
    /\ pc = "roles"
    /\ role_i > Len(roles)
    /\ roles_ls' = Append(roles_ls, roles)
    /\ roles' = clear(roles)
    /\ itr' = itr + 1
    /\ pc' = "main"
    /\ UNCHANGED sfVars
    /\ UNCHANGED << err, rels, role_i, nmp, nls, kv_mat_mp, kv_mat_ls,
                    count_mp, count_ls, scratch, mpArrs, lsArrs, row_overrun,
                    ret, checked >>

\* line 225: the main loop ends
EndMain ==
    /\ pc = "main"
    /\ itr > Len(rels)
    /\ pc' = "checks"
    /\ UNCHANGED sfVars
    /\ UNCHANGED << err, relVars >>

\* check_geom_arrs: the three arrays agree in length at both levels
check_geom_arrs(lon_arr, lat_arr, rowname_arr) ==
    /\ Len(lon_arr) = Len(lat_arr)
    /\ Len(lon_arr) = Len(rowname_arr)
    /\ \A i \in 1..Len(lon_arr) :
          /\ Len(lon_arr[i]) = Len(lat_arr[i])
          /\ Len(lon_arr[i]) = Len(rowname_arr[i])
          /\ \A j \in 1..Len(lon_arr[i]) :
                /\ Len(lon_arr[i][j]) = Len(lat_arr[i][j])
                /\ Len(lon_arr[i][j]) = Len(rowname_arr[i][j])

\* check_id_arr: the id array agrees in length with the geometry array
check_id_arr(lon_arr, id_vec) ==
    /\ Len(lon_arr) = Len(id_vec)
    /\ \A i \in 1..Len(lon_arr) : Len(lon_arr[i]) = Len(id_vec[i])

\* convert_poly_linestring_to_Rcpp: one named list entry per relation or role
convert_poly_linestring_to_Rcpp(lon_arr, lat_arr, rowname_arr, id_vec, rel_id) ==
    [i \in 1..Len(lon_arr) |->
        [ name |-> rel_id[i],
          geom |-> [j \in 1..Len(lon_arr[i]) |->
                      [ lon |-> lon_arr[i][j],
                        lat |-> lat_arr[i][j],
                        rowname |-> rowname_arr[i][j],
                        id |-> id_vec[i][j] ]] ]]

\* restructure_kv_mat: the matrix with its dimnames
restructure_kv_mat(mat, rownames, colnames) ==
    [rownames |-> rownames, colnames |-> SetIter(colnames), cells |-> mat]

\* lines 227-230 with the calls of check_id_arr left out
CheckCallsWithoutIds ==
    << [args |-> {"lon_arr_mp", "lat_arr_mp", "rowname_arr_mp"},
        ok |-> check_geom_arrs(lon_arr_mp, lat_arr_mp, rowname_arr_mp)],
       [args |-> {"lon_arr_ls", "lat_arr_ls", "rowname_arr_ls"},
        ok |-> check_geom_arrs(lon_arr_ls, lat_arr_ls, rowname_arr_ls)] >>

\* lines 227-230: the four calls in their order, each with the arrays it is
\* given and its outcome on them
CheckCalls ==
    << [args |-> {"lon_arr_mp", "lat_arr_mp", "rowname_arr_mp"},
        ok |-> check_geom_arrs(lon_arr_mp, lat_arr_mp, rowname_arr_mp)],
       [args |-> {"lon_arr_ls", "lat_arr_ls", "rowname_arr_ls"},
        ok |-> check_geom_arrs(lon_arr_ls, lat_arr_ls, rowname_arr_ls)],
       [args |-> {"lon_arr_ls", "id_vec_ls"},
        ok |-> check_id_arr(lon_arr_ls, id_vec_ls)],
       [args |-> {"lon_arr_mp", "id_vec_mp"},
        ok |-> check_id_arr(lon_arr_mp, id_vec_mp)] >>

\* the first call that throws, Len(calls) + 1 when none does
FirstFailure(calls) ==
    CHOOSE i \in 1..(Len(calls) + 1) :
        /\ \A j \in 1..(i - 1) : calls[j].ok
        /\ i <= Len(calls) => ~ calls[i].ok

\* lines 227-230: the structural checks; a failing check throws, and the
\* calls after it are not made.  checked records the arrays that a check has
\* been given.
CheckArrs ==
    /\ pc = "checks"
    /\ LET n == FirstFailure(CheckCalls)
           made == IF n <= Len(CheckCalls) THEN n ELSE Len(CheckCalls)
       IN  /\ checked' =
                 checked \cup UNION {CheckCalls[i].args : i \in 1..made}
           /\ IF n > Len(CheckCalls)
              THEN pc' = "convert" /\ err' = err
              ELSE pc' = "error" /\ err' = "StructuralMismatchError"
    /\ UNCHANGED sfVars
    /\ UNCHANGED << rels, itr, role_i, nmp, nls, kv_mat_mp, kv_mat_ls,
                    count_mp, count_ls, scratch, roles, roles_ls, mpArrs,
                    lsArrs, row_overrun, ret >>

\* lines 232-298: the four outputs are built, the arrays are cleaned up
Convert ==
    /\ pc = "convert"
    /\ ret' =
          << convert_poly_linestring_to_Rcpp(lon_arr_mp, lat_arr_mp,
                 rowname_arr_mp, id_vec_mp, rel_id_mp),
             IF Len(rel_id_mp) > 0
             THEN restructure_kv_mat(kv_mat_mp, rel_id_mp, k_rel)
             ELSE R_NilValue,
             convert_poly_linestring_to_Rcpp(lon_arr_ls, lat_arr_ls,
                 rowname_arr_ls, id_vec_ls, rel_id_ls),
             IF Len(rel_id_ls) > 0
             THEN restructure_kv_mat(kv_mat_ls, rel_id_ls, k_rel)
             ELSE R_NilValue >>
    /\ lon_arr_mp' = << >>
    /\ lat_arr_mp' = << >>
    /\ rowname_arr_mp' = << >>
    /\ lon_arr_ls' = << >>
    /\ lat_arr_ls' = << >>
    /\ rowname_arr_ls' = << >>
    /\ id_vec_mp' = << >>
    /\ id_vec_ls' = << >>
    /\ rel_id_mp' = << >>
    /\ rel_id_ls' = << >>
    /\ roles_ls' = << >>
    /\ pc' = "done"
    /\ UNCHANGED sfVars
    /\ UNCHANGED << err, rels, itr, role_i, nmp, nls, kv_mat_mp, kv_mat_ls,
                    count_mp, count_ls, scratch, roles, row_overrun,
                    checked >>

NextRel ==
    \/ PreCount
    \/ AllocMats
    \/ MultiPolygon
    \/ BuildRoles
    \/ OneRole
    \/ EndRoles
    \/ EndMain
    \/ CheckArrs
    \/ Convert

SpecRel == InitRel /\ [][NextRel]_vars

(***************************************************************************)
(* Properties of get_osm_relations.                                        *)
(***************************************************************************)
\* the distinct role strings among the members of a relation
DistinctRoles(r) == { r.ways[p][2] : p \in 1..Len(r.ways) }

\* the number of multilinestrings owed to the relations before the i-th
RECURSIVE LsBefore(_)
LsBefore(i) ==
    IF i <= 1 THEN 0
    ELSE LsBefore(i - 1)
         + (IF rels[i - 1].ispoly THEN 0
            ELSE Cardinality(DistinctRoles(rels[i - 1])))

\* the number of polygon-type relations before the i-th
RECURSIVE MpBefore(_)
MpBefore(i) ==
    IF i <= 1 THEN 0
    ELSE MpBefore(i - 1) + (IF rels[i - 1].ispoly THEN 1 ELSE 0)

\* the relation that owns the e-th multilinestring entry, and the entry's
\* rank among the entries of that relation
LsOwner(e) ==
    CHOOSE j \in 1..Len(rels) :
        ~ rels[j].ispoly /\ LsBefore(j) < e /\ e <= LsBefore(j + 1)
LsRank(e) == e - LsBefore(LsOwner(e))

\* the role of a relation that has exactly k - 1 smaller roles
RoleOfRank(r, k) ==
    CHOOSE x \in DistinctRoles(r) :
        Cardinality({y \in DistinctRoles(r) : StrLess(y, x)}) = k - 1

\* the e-th polygon-type relation in input order
MpOwner(e) ==
    CHOOSE j \in 1..Len(rels) : rels[j].ispoly /\ MpBefore(j) = e - 1

BetweenRelations == pc \in { "main", "checks" }
InMainLoop == pc \in { "main", "roles", "checks" }
MainLoopDone == pc = "checks"

\* C1: when the relations before the itr-th have been processed, each of the
\* five multilinestring arrays and the attribute row counter hold exactly one
\* entry per distinct role of each non-polygon relation among them (none for
\* a relation without members), and the loop raises no error.
C1_OneEntryPerDistinctRole ==
    /\ InMainLoop => err = "none"
    /\ BetweenRelations =>
          /\ Len(rel_id_ls) = LsBefore(itr)
          /\ Len(lon_arr_ls) = LsBefore(itr)
          /\ Len(lat_arr_ls) = LsBefore(itr)
          /\ Len(rowname_arr_ls) = LsBefore(itr)
          /\ Len(id_vec_ls) = LsBefore(itr)
          /\ count_ls = LsBefore(itr)

C1_Witness ==
    /\ pc = "checks"
    /\ Len(rels) = 2
    /\ ~ rels[1].ispoly /\ rels[1].ways = << >>
    /\ ~ rels[2].ispoly /\ Len(rels[2].ways) = 2
    /\ Len(rel_id_ls) = 1
    /\ count_ls = 1

\* C2: when the main loop has finished,
\* the entries of one non-polygon relation are in ascending order of
\* role, the empty role first; the label of an entry is "<id>-(no role)" for
\* the empty role and "<id>-<role>" otherwise; the groups of entries follow
\* the input order of the relations.
C2_SortedRolesAndLabels ==
    MainLoopDone =>
        \A e \in 1..Len(rel_id_ls) :
            LET r == rels[LsOwner(e)]
                role == RoleOfRank(r, LsRank(e))
            IN  /\ rel_id_ls[e] =
                      (IF role = << >>
                       THEN to_string(r.id)
                            \o << "-", "(", "n", "o", " ", "r", "o", "l", "e", ")" >>
                       ELSE to_string(r.id) \o << "-" >> \o role)
                /\ (LsRank(e) > 1 => role # << >>)
                /\ (<< >> \in DistinctRoles(r) /\ LsRank(e) = 1 => role = << >>)
                /\ (e > 1 => LsOwner(e - 1) <= LsOwner(e))

C2_Witness ==
    /\ pc = "checks"
    /\ Len(rels) = 2
    /\ rels[1].ways = << << 1, Role_b >>, << 2, Role_ab >> >>
    /\ rels[2].ways = << << 1, Role_b >>, << 2, NoRole >> >>
    /\ rel_id_ls =
          << << "1", "2", "-", "a", "b" >>,
             << "1", "2", "-", "b" >>,
             << "1", "9", "-", "(", "n", "o", " ", "r", "o", "l", "e", ")" >>,
             << "1", "9", "-", "b" >> >>

\* C3: when the main loop has finished,
\* every attribute row written for a role of a non-polygon relation is
\* the attribute row of that relation, so the rows of one relation are equal.
C3_RoleRowsCopyRelationRow ==
    MainLoopDone =>
        \A e \in 1..Len(rel_id_ls) :
            /\ e <= Len(kv_mat_ls)
            /\ kv_mat_ls[e] = AttributeRow(rels[LsOwner(e)].key_val, k_rel)
            /\ \A f \in 1..Len(rel_id_ls) :
                  LsOwner(f) = LsOwner(e) => kv_mat_ls[f] = kv_mat_ls[e]

C3_Witness ==
    /\ pc = "checks"
    /\ Len(rels) = 2
    /\ Cardinality(DistinctRoles(rels[1])) = 2
    /\ Cardinality(DistinctRoles(rels[2])) = 1
    /\ ~ rels[1].ispoly /\ ~ rels[2].ispoly
    /\ kv_mat_ls[1] = kv_mat_ls[2]
    /\ kv_mat_ls[1] = << NA_STRING, << "1", "2" >> >>
    /\ kv_mat_ls[3] = << << "1", "9" >>, << "r" >> >>

\* C4: every polygon-type relation appends exactly one entry to each of the
\* five multipolygon arrays and writes one attribute row; entry i, label i
\* and row i belong to the i-th polygon-type relation in input order.
C4_OneEntryPerPolygonRelation ==
    /\ BetweenRelations =>
          /\ Len(rel_id_mp) = MpBefore(itr)
          /\ Len(lon_arr_mp) = MpBefore(itr)
          /\ Len(lat_arr_mp) = MpBefore(itr)
          /\ Len(rowname_arr_mp) = MpBefore(itr)
          /\ Len(id_vec_mp) = MpBefore(itr)
          /\ count_mp = MpBefore(itr)
    /\ MainLoopDone =>
          \A e \in 1..Len(rel_id_mp) :
              LET r == rels[MpOwner(e)]
              IN  /\ rel_id_mp[e] = to_string(r.id)
                  /\ id_vec_mp[e] =
                        [p \in 1..Len(r.ways) |-> to_string(r.ways[p][1])]
                  /\ Len(lon_arr_mp[e]) = Len(r.ways)
                  /\ Len(lat_arr_mp[e]) = Len(r.ways)
                  /\ Len(rowname_arr_mp[e]) = Len(r.ways)
                  /\ e <= Len(kv_mat_mp)
                  /\ kv_mat_mp[e] = AttributeRow(r.key_val, k_rel)

C4_Witness ==
    /\ pc = "checks"
    /\ Len(rels) = 2
    /\ rels[1].ispoly /\ rels[2].ispoly
    /\ Len(rels[1].ways) = 2 /\ Len(rels[2].ways) = 1
    /\ rel_id_mp = << << "1", "2" >>, << "1", "9" >> >>
    /\ Len(lon_arr_mp) = 2
    /\ kv_mat_mp[1] # kv_mat_mp[2]

\* C5: when the main loop has finished, nmp and nls equal the final counters
\* and the lengths of the label and geometry arrays; no row index ever
\* reached the row count of its matrix, and no row is left unwritten.
C5_RowCountsMatch ==
    /\ ~ row_overrun
    /\ pc = "checks" =>
          /\ nmp = count_mp
          /\ nmp = Len(rel_id_mp)
          /\ nmp = Len(lon_arr_mp)
          /\ nmp = Len(kv_mat_mp)
          /\ nls = count_ls
          /\ nls = Len(rel_id_ls)
          /\ nls = Len(lon_arr_ls)
          /\ nls = Len(kv_mat_ls)
          /\ \A e \in 1..Len(kv_mat_mp) : \A c \in 1..Len(kv_mat_mp[e]) :
                kv_mat_mp[e][c] # BlankString
          /\ \A e \in 1..Len(kv_mat_ls) : \A c \in 1..Len(kv_mat_ls[e]) :
                kv_mat_ls[e][c] # BlankString

C5_Witness ==
    /\ pc = "checks"
    /\ nmp = 1
    /\ nls = 2
    /\ count_mp = 1
    /\ count_ls = 2
    /\ Len(rels) = 2

(***************************************************************************)
(* rcpp_osmdata_sf (the way partition), get_osm_ways and get_osm_nodes.    *)
(*                                                                         *)
(* The graph is either one of ways over untagged nodes, of which node 2    *)
(* may be absent from the node map, or one of tagged nodes without ways.   *)
(* Every way has at least one node.                                        *)
(***************************************************************************)
Key_ref == << "r", "e", "f" >>
NodeKeys == { Key_name, Key_ref, Key_type }
\* unique_vals.k_way
k_way == { Key_name, Key_type }

WayId(i) == 3 * i + 1
NodeId(i) == 4 * i + 3

WayNodeIds == { 1, 2 }
WayShapes == UNION { [1..n -> WayNodeIds] : n \in 1..MaxWayLen }

\* OneWay::key_val of a way; every value names the way
WayTags(id) ==
    IF id % 2 = 1 THEN (Key_name :> to_string(id))
    ELSE (Key_name :> to_string(id)) @@ (Key_type :> << "w" >>)

\* Node::key_val: the value of a tag names the node and the key
NodeVal(id, key) == to_string(id) \o << "-" >> \o key

Node(id, keys) ==
    [ lon |-> 10 * id, lat |-> 10 * id + 1,
      key_val |-> [k \in keys |-> NodeVal(id, k)] ]

\* the n-th element (from 1) of a std::map or std::set keyed by id
NthId(S, n) == CHOOSE x \in S : Cardinality({ y \in S : y < x }) = n - 1

InitWaysGraph ==
    /\ \E n \in 0..MaxWays : \E sh \in [1..n -> WayShapes] :
          ways = [id \in { WayId(i) : i \in 1..n } |->
                    [ nodes |-> sh[CHOOSE i \in 1..n : WayId(i) = id],
                      key_val |-> WayTags(id) ]]
    /\ \E present \in { { 1, 2 }, { 1 } } :
          nodes = [id \in present |-> Node(id, {})]
    /\ k_point = {}

InitNodesGraph ==
    /\ ways = << >>
    /\ \E n \in 0..MaxNodes : \E ks \in [1..n -> SUBSET NodeKeys] :
          nodes = [id \in { NodeId(i) : i \in 1..n } |->
                     Node(id, ks[CHOOSE i \in 1..n : NodeId(i) = id])]
    /\ k_point \in SUBSET NodeKeys

R_NULL == [null |-> TRUE]

InitSf ==
    /\ pc = "partition"
    /\ err = "none"
    /\ IdleRelVars
    /\ \/ InitWaysGraph
       \/ InitNodesGraph
    /\ itw = 1
    /\ poly_ways = {}
    /\ non_poly_ways = {}
    /\ call = "none"
    /\ geom_type = "none"
    /\ way_ids = {}
    /\ wayList = << >>
    /\ ptList = << >>
    /\ kv_df = R_NilValue
    /\ kv_mat = << >>
    /\ count = 0
    /\ waynames = << >>
    /\ ptnames = << >>
    /\ list_attr = R_NilValue
    /\ col_overrun = FALSE

graph == << ways, nodes, k_point >>
partition == << itw, poly_ways, non_poly_ways >>

\* line 509: nodes.front () == nodes.back ()
IsPolyWay(nds) == nds[1] = nds[Len(nds)]

\* lines 507-515: one way is placed in poly_ways or in non_poly_ways
PartitionWay ==
    /\ pc = "partition"
    /\ itw <= Cardinality(DOMAIN ways)
    /\ LET id == NthId(DOMAIN ways, itw)
       IN  IF IsPolyWay(ways[id].nodes)
           THEN /\ poly_ways' = poly_ways \cup { id }
                /\ non_poly_ways' = non_poly_ways
           ELSE /\ non_poly_ways' = non_poly_ways \cup { id }
                /\ poly_ways' = poly_ways
    /\ itw' = itw + 1
    /\ UNCHANGED << pc, err, relVars, graph, call, geom_type, way_ids,
                    wayList, ptList, kv_df, kv_mat, count, waynames, ptnames,
                    list_attr, col_overrun >>

\* line 515: the partition loop ends
PartitionEnd ==
    /\ pc = "partition"
    /\ itw > Cardinality(DOMAIN ways)
    /\ pc' = "call"
    /\ UNCHANGED << err, relVars, sfVars >>

GeomTypes == { "POLYGON", "LINESTRING", "POINT" }

\* lines 517-525: get_osm_ways is called on poly_ways or on non_poly_ways;
\* the geometry type and the size of the list are those of any caller
CallGetOsmWays ==
    /\ pc = "call"
    /\ call' = "ways"
    /\ way_ids' \in { poly_ways, non_poly_ways }
    /\ geom_type' \in GeomTypes
    /\ \E n \in 0..MaxWays : wayList' = [i \in 1..n |-> R_NULL]
    /\ pc' = "entry"
    /\ UNCHANGED << err, relVars, graph, partition, ptList, kv_df, kv_mat,
                    count, waynames, ptnames, list_attr, col_overrun >>

\* lines 531-533: get_osm_nodes is called; the size of the list is that of
\* any caller
CallGetOsmNodes ==
    /\ pc = "call"
    /\ call' = "nodes"
    /\ \E n \in 0..MaxNodes : ptList' = [i \in 1..n |-> R_NULL]
    /\ pc' = "entry"
    /\ UNCHANGED << err, relVars, graph, partition, geom_type, way_ids,
                    wayList, kv_df, kv_mat, count, waynames, ptnames,
                    list_attr, col_overrun >>

(***************************************************************************)
(* get_osm_ways                                                            *)
(***************************************************************************)
\* trace_way_nmat: the coordinates of the nodes of a way, in order; the trace
\* fails with MissingNodeError when a node id is absent from the node map
trace_way_nmat(way, nds) ==
    IF \A p \in 1..Len(way.nodes) : way.nodes[p] \in DOMAIN nds
    THEN [ ok |-> TRUE,
           nmat |-> [p \in 1..Len(way.nodes) |->
                       << nds[way.nodes[p]].lon, nds[way.nodes[p]].lat >>],
           rownames |-> [p \in 1..Len(way.nodes) |-> to_string(way.nodes[p])] ]
    ELSE [ ok |-> FALSE, nmat |-> << >>, rownames |-> << >> ]

\* get_value_mat_way (wj, ways, unique_vals, value_arr, rowi)
get_value_mat_way(way, value_arr, rowi) ==
    IF rowi < Len(value_arr)
    THEN [value_arr EXCEPT ![rowi + 1] = AttributeRow(way.key_val, k_way)]
    ELSE value_arr

\* lines 328-329 and 390-391: a matrix filled with NA_STRING
NaMatrix(nrow, ncol) == [r \in 1..nrow |-> [c \in 1..ncol |-> NA_STRING]]

\* line 319
GeomTypeOk(g) == g = "POLYGON" \/ g = "LINESTRING"

\* a mutation of WaySizesOk: the sizes are not compared
WaySizesUnchecked(list, ids) == TRUE

\* line 321: wayList.size () != way_ids.size ()
WaySizesOk(list, ids) == Len(list) = Cardinality(ids)

\* lines 319-330: the arguments are checked, then the locals are set up
WaysEntry ==
    /\ pc = "entry"
    /\ call = "ways"
    /\ IF ~ GeomTypeOk(geom_type)
       THEN /\ pc' = "error"
            /\ err' = "geom_type must be POLYGON or LINESTRING"
            /\ UNCHANGED << kv_mat, count, waynames >>
       ELSE IF ~ WaySizesOk(wayList, way_ids)
       THEN /\ pc' = "error"
            /\ err' = "ways and IDs must have same lengths"
            /\ UNCHANGED << kv_mat, count, waynames >>
       ELSE /\ pc' = "loop"
            /\ err' = err
            /\ kv_mat' = NaMatrix(Cardinality(way_ids), Cardinality(k_way))
            /\ count' = 0
            /\ waynames' = << >>
    /\ UNCHANGED << relVars, graph, partition, call, geom_type, way_ids,
                    wayList, ptList, kv_df, ptnames, list_attr, col_overrun >>

\* lines 336-348: the list element stored for one traced way
WayGeometry(g, nmat) ==
    IF g = "LINESTRING"
    THEN [class |-> << "XY", g, "sfg" >>, nmat |-> nmat]
    ELSE [class |-> << "XY", g, "sfg" >>, list |-> << nmat >>]

\* lines 331-351: one way is traced and stored; an exception of the tracer
\* is not caught and leaves the function
WaysLoop ==
    /\ pc = "loop"
    /\ call = "ways"
    /\ count < Cardinality(way_ids)
    /\ LET wi == NthId(way_ids, count + 1)
           t == trace_way_nmat(ways[wi], nodes)
       IN  /\ waynames' = Append(waynames, to_string(wi))
           /\ IF t.ok
              THEN /\ wayList' =
                         [wayList EXCEPT ![count + 1] =
                             WayGeometry(geom_type, t.nmat)]
                   /\ kv_mat' = get_value_mat_way(ways[wi], kv_mat, count)
                   /\ count' = count + 1
                   /\ UNCHANGED << pc, err >>
              ELSE /\ pc' = "error"
                   /\ err' = "MissingNodeError"
                   /\ UNCHANGED << wayList, kv_mat, count >>
    /\ UNCHANGED << relVars, graph, partition, call, geom_type, way_ids,
                    ptList, kv_df, ptnames, list_attr, col_overrun >>

\* lines 353-367: the attributes of the list and the attribute table
WaysFinish ==
    /\ pc = "loop"
    /\ call = "ways"
    /\ count >= Cardinality(way_ids)
    /\ list_attr' =
          [ names |-> waynames, n_empty |-> 0,
            class |-> << << "sfc_", geom_type >>, "sfc" >> ]
    /\ kv_df' = restructure_kv_mat(kv_mat, waynames, k_way)
    /\ pc' = "done"
    /\ UNCHANGED << err, relVars, graph, partition, call, geom_type, way_ids,
                    wayList, ptList, kv_mat, count, waynames, ptnames,
                    col_overrun >>

(***************************************************************************)
(* get_osm_nodes                                                           *)
(***************************************************************************)
\* line 387: ptList.size () != nrow
PointSizesOk(list, nds) == Len(list) = Cardinality(DOMAIN nds)

\* lines 385-395: the argument is checked, then the locals are set up
NodesEntry ==
    /\ pc = "entry"
    /\ call = "nodes"
    /\ IF ~ PointSizesOk(ptList, nodes)
       THEN /\ pc' = "error"
            /\ err' = "points must have same size as nodes"
            /\ UNCHANGED << kv_mat, count, ptnames >>
       ELSE /\ pc' = "loop"
            /\ err' = err
            /\ kv_mat' = NaMatrix(Cardinality(DOMAIN nodes),
                                  Cardinality(k_point))
            /\ count' = 0
            /\ ptnames' = << >>
    /\ UNCHANGED << relVars, graph, partition, call, geom_type, way_ids,
                    wayList, ptList, kv_df, waynames, list_attr,
                    col_overrun >>

\* a mutation of KeyColumn: the keys up to and including the key are counted
KeyColumnPastKey(key) ==
    IF key \in k_point
    THEN Cardinality({ x \in k_point : x = key \/ StrLess(x, key) })
    ELSE Cardinality(k_point)

\* lines 408-409: the column of a key
KeyColumn(key) == SetFindDistance(k_point, key)

\* lines 404-411: the cells of one row, written key by key in map order; a
\* column index outside the row leaves the row as it is
RECURSIVE WriteCells(_, _, _)
WriteCells(keys, key_val, row) ==
    IF keys = << >> THEN row
    ELSE LET ni == KeyColumn(Head(keys))
         IN  WriteCells(Tail(keys), key_val,
                 IF ni < Len(row)
                 THEN [row EXCEPT ![ni + 1] = key_val[Head(keys)]]
                 ELSE row)

\* line 410 with ni == ncol: kv_mat (count, ni) lies outside the matrix
ColumnOverrun(key_val) ==
    \E key \in DOMAIN key_val : KeyColumn(key) >= Cardinality(k_point)

\* what a write outside the matrix does depends on the build: it lands
\* outside the matrix unnoticed, or the string vector's bounds check raises
OverrunOutcomes(key_val) ==
    IF ColumnOverrun(key_val) THEN { "unnoticed", "raised" } ELSE { "none" }

\* lines 396-413: one node is stored as a point and its row is written
NodesLoop ==
    /\ pc = "loop"
    /\ call = "nodes"
    /\ count < Cardinality(DOMAIN nodes)
    /\ LET id == NthId(DOMAIN nodes, count + 1)
           nd == nodes[id]
       IN  /\ ptList' =
                 [ptList EXCEPT ![count + 1] =
                     [class |-> << "XY", "POINT", "sfg" >>,
                      xy |-> << nd.lon, nd.lat >>]]
           /\ ptnames' = Append(ptnames, to_string(id))
           /\ \E outcome \in OverrunOutcomes(nd.key_val) :
                 IF outcome = "raised"
                 THEN /\ pc' = "error"
                      /\ err' = "index out of bounds"
                      /\ col_overrun' = TRUE
                      /\ UNCHANGED << kv_mat, count >>
                 ELSE /\ kv_mat' =
                            [kv_mat EXCEPT ![count + 1] =
                                WriteCells(SetIter(DOMAIN nd.key_val),
                                           nd.key_val, kv_mat[count + 1])]
                      /\ col_overrun' = (col_overrun \/ outcome = "unnoticed")
                      /\ count' = count + 1
                      /\ UNCHANGED << pc, err >>
    /\ UNCHANGED << relVars, graph, partition, call, geom_type, way_ids,
                    wayList, kv_df, waynames, list_attr >>

\* lines 414-424: the attribute table and the attributes of the list
NodesFinish ==
    /\ pc = "loop"
    /\ call = "nodes"
    /\ count >= Cardinality(DOMAIN nodes)
    /\ kv_df' = restructure_kv_mat(kv_mat, ptnames, k_point)
    /\ list_attr' =
          [ names |-> ptnames, n_empty |-> 0,
            class |-> << "sfc_POINT", "sfc" >> ]
    /\ ptnames' = << >>
    /\ pc' = "done"
    /\ UNCHANGED << err, relVars, graph, partition, call, geom_type, way_ids,
                    wayList, ptList, kv_mat, count, waynames, col_overrun >>

NextSf ==
    \/ PartitionWay
    \/ PartitionEnd
    \/ CallGetOsmWays
    \/ CallGetOsmNodes
    \/ WaysEntry
    \/ WaysLoop
    \/ WaysFinish
    \/ NodesEntry
    \/ NodesLoop
    \/ NodesFinish

SpecSf == InitSf /\ [][NextSf]_vars

(***************************************************************************)
(* Properties of get_osm_nodes, rcpp_osmdata_sf and get_osm_ways.          *)
(***************************************************************************)
\* the id of rank i (from 1) in ascending order
IdOfRank(S, i) == CHOOSE x \in S : Cardinality({ y \in S : y < x }) + 1 = i

\* the position (from 1) of a key in the sorted key set
PositionOfKey(key) == Cardinality({ x \in k_point : StrLess(x, key) }) + 1

NodesDone == call = "nodes" /\ pc = "done"

\* C6: when get_osm_nodes has finished, the row of the i-th node in ascending
\* id order has |k_point| cells; the cell of each key of the sorted key set
\* holds the node's value for that key, or NA when the node has no such tag;
\* row i, name i and point i are those of the i-th node.
C6_NodeRowsFollowKeySet ==
    NodesDone =>
        /\ Len(kv_df.cells) = Cardinality(DOMAIN nodes)
        /\ Len(ptList) = Cardinality(DOMAIN nodes)
        /\ kv_df.colnames = SetIter(k_point)
        /\ \A i \in 1..Cardinality(DOMAIN nodes) :
              LET id == IdOfRank(DOMAIN nodes, i)
                  row == kv_df.cells[i]
              IN  /\ Len(row) = Cardinality(k_point)
                  /\ \A key \in k_point :
                        row[PositionOfKey(key)] =
                            (IF key \in DOMAIN nodes[id].key_val
                             THEN nodes[id].key_val[key]
                             ELSE NA_STRING)
                  /\ kv_df.rownames[i] = to_string(id)
                  /\ list_attr.names[i] = to_string(id)
                  /\ ptList[i].xy = << nodes[id].lon, nodes[id].lat >>

C6_Witness ==
    /\ NodesDone
    /\ ~ col_overrun
    /\ k_point = NodeKeys
    /\ DOMAIN nodes = { 7, 11 }
    /\ kv_df.cells[1] =
          << NA_STRING, << "7", "-", "r", "e", "f" >>,
             << "7", "-", "t", "y", "p", "e" >> >>
    /\ kv_df.cells[2] =
          << << "1", "1", "-", "n", "a", "m", "e" >>, NA_STRING, NA_STRING >>

\* the nodes call passed its size check and some node has a key outside k_point
UnknownKeyCase ==
    /\ call = "nodes"
    /\ Len(ptList) = Cardinality(DOMAIN nodes)
    /\ \E id \in DOMAIN nodes : \E key \in DOMAIN nodes[id].key_val :
          key \notin k_point

\* C7: when a node carries a key that is not in k_point, get_osm_nodes ends
\* with UnknownKeyError, and no write to column |k_point| is ever made.
C7_UnknownKeyRejected ==
    /\ ~ col_overrun
    /\ (UnknownKeyCase /\ pc \in { "done", "error" }) =>
          (pc = "error" /\ err = "UnknownKeyError")

\* C8: once the partition loop has ended, every way is in exactly one of
\* poly_ways and non_poly_ways, and it is in poly_ways exactly when its first
\* node id equals its last and it has more than one node.
C8_PolyWaysAreClosedWays ==
    pc # "partition" =>
        \A id \in DOMAIN ways :
            LET nds == ways[id].nodes
                closed == Len(nds) > 1 /\ nds[1] = nds[Len(nds)]
            IN  /\ (id \in poly_ways) = closed
                /\ (id \in non_poly_ways) = ~ closed

BadWaysCall ==
    /\ call = "ways"
    /\ \/ geom_type \notin { "POLYGON", "LINESTRING" }
       \/ Len(wayList) # Cardinality(way_ids)

BadNodesCall ==
    /\ call = "nodes"
    /\ Len(ptList) # Cardinality(DOMAIN nodes)

NothingWritten ==
    /\ \A i \in 1..Len(wayList) : wayList[i] = R_NULL
    /\ \A i \in 1..Len(ptList) : ptList[i] = R_NULL
    /\ kv_df = R_NilValue
    /\ list_attr = R_NilValue
    /\ kv_mat = << >>
    /\ waynames = << >>
    /\ ptnames = << >>
    /\ count = 0

\* C9: a call of get_osm_ways with another geometry type or with a list whose
\* size differs from the number of way ids, and a call of get_osm_nodes with
\* a list whose size differs from the number of nodes, go from entry straight
\* to an error; no way is traced and no output is written.
C9_MisuseRejectedBeforeTracing ==
    /\ [](BadWaysCall \/ BadNodesCall =>
             /\ pc \in { "entry", "error" }
             /\ pc = "error" =>
                   err \in { "geom_type must be POLYGON or LINESTRING",
                             "ways and IDs must have same lengths",
                             "points must have same size as nodes" }
             /\ NothingWritten)
    /\ [][(BadWaysCall \/ BadNodesCall) /\ pc = "entry" => pc' = "error"]_vars

C9_Witness ==
    /\ call = "ways"
    /\ pc = "error"
    /\ geom_type = "POLYGON"
    /\ Len(wayList) = 2
    /\ Cardinality(way_ids) = 1
    /\ err = "ways and IDs must have same lengths"

\* a valid call of get_osm_ways on ways of which one can be traced
ValidWaysCall ==
    /\ call = "ways"
    /\ geom_type \in { "POLYGON", "LINESTRING" }
    /\ Len(wayList) = Cardinality(way_ids)
    /\ \E id \in way_ids :
          \A p \in 1..Len(ways[id].nodes) : ways[id].nodes[p] \in DOMAIN nodes

\* C10: a way that references a node absent from the node map does not stop
\* get_osm_ways: the function finishes, and every way whose nodes are all
\* present has its geometry and its attribute row emitted.
C10_MissingNodeConfinedToWay ==
    (ValidWaysCall /\ pc \in { "done", "error" }) =>
        /\ pc = "done"
        /\ \A i \in 1..Cardinality(way_ids) :
              LET id == IdOfRank(way_ids, i)
              IN  (\A p \in 1..Len(ways[id].nodes) :
                       ways[id].nodes[p] \in DOMAIN nodes)
                  => /\ wayList[i] # R_NULL
                     /\ kv_df.cells[i] = AttributeRow(ways[id].key_val, k_way)

(***************************************************************************)
(* get_osm_relations: validation before emission, and the scratch buffers. *)
(***************************************************************************)
Kinds == { "mp", "ls" }

\* the arrays whose lengths checks (a) and (b) of the normalizer compare
LengthArrays(kind) ==
    IF kind = "mp"
    THEN { "lon_arr_mp", "lat_arr_mp", "rowname_arr_mp", "id_vec_mp" }
    ELSE { "lon_arr_ls", "lat_arr_ls", "rowname_arr_ls", "id_vec_ls" }

\* the attribute table whose row count check (c) compares
AttributeTable(kind) == IF kind = "mp" THEN "kv_mat_mp" ELSE "kv_mat_ls"

\* checks (a) and (b) have been evaluated on the arrays of the kind
LengthsEvaluated(kind) == LengthArrays(kind) \subseteq checked

\* check (c) has been evaluated on the attribute table of the kind
RowCountEvaluated(kind) == AttributeTable(kind) \in checked

Emitted == ret # R_NilValue

\* a failed check ends the call with the error and without any output
AbortsWithoutOutput ==
    pc = "error" => (err = "StructuralMismatchError" /\ ~ Emitted)

StartOfRelation == pc = "main" /\ itr <= Len(rels)

\* the trace of the role at role_i is about to start
StartOfRoleTrace == pc = "roles" /\ role_i <= Len(roles)

TraceBuffersEmpty ==
    /\ lon_vec = << >>
    /\ lat_vec = << >>
    /\ rowname_vec = << >>
    /\ ids_mp = << >>
    /\ ids_ls = << >>

\* buffers that hold nothing
FreshBuf == [lon |-> << >>, lat |-> << >>, rowname |-> << >>, ids |-> << >>]

\* the number of non-polygon relations before the i-th
LsRelsBefore(i) == (i - 1) - MpBefore(i)

\* when the main loop has finished, every stored entry is the trace of its
\* own relation (and role) alone, and every stored role vector holds the
\* roles of its own relation alone
NoCarryOver ==
    MainLoopDone =>
        /\ \A e \in 1..Len(lon_arr_mp) :
              LET t == trace_multipolygon(rels[MpOwner(e)], FreshBuf)
              IN  /\ lon_arr_mp[e] = t.lon
                  /\ lat_arr_mp[e] = t.lat
                  /\ rowname_arr_mp[e] = t.rowname
                  /\ id_vec_mp[e] = t.ids
        /\ \A e \in 1..Len(lon_arr_ls) :
              LET r == rels[LsOwner(e)]
                  t == trace_multilinestring(r, RoleOfRank(r, LsRank(e)),
                                             FreshBuf)
              IN  /\ lon_arr_ls[e] = t.lon
                  /\ lat_arr_ls[e] = t.lat
                  /\ rowname_arr_ls[e] = t.rowname
                  /\ id_vec_ls[e] = t.ids
        /\ Len(roles_ls) = LsRelsBefore(Len(rels) + 1)
        /\ \A j \in 1..Len(rels) :
              ~ rels[j].ispoly =>
                  LET rs == roles_ls[LsRelsBefore(j) + 1]
                  IN  /\ Len(rs) = Cardinality(DistinctRoles(rels[j]))
                      /\ { rs[x] : x \in 1..Len(rs) } = DistinctRoles(rels[j])

\* C12 as stated: lon_vec, lat_vec, rowname_vec, ids_mp, ids_ls and roles are
\* all empty at the start of every relation's processing and at the start of
\* every per-role trace, and no stored entry holds data of an earlier
\* relation or role.
C12_ScratchBuffersAlwaysEmpty ==
    /\ (StartOfRelation \/ StartOfRoleTrace) =>
          (TraceBuffersEmpty /\ roles = << >>)
    /\ NoCarryOver

\* C12, amended: lon_vec, lat_vec, rowname_vec, ids_mp and ids_ls are empty at
\* the start of every relation's processing and of every per-role trace;
\* roles is empty at the start of every relation's processing and holds,
\* during the per-role traces, the distinct roles of the current relation
\* only; no stored entry holds data of an earlier relation or role.
C12_ScratchBuffersDoNotCarryOver ==
    /\ StartOfRelation => (TraceBuffersEmpty /\ roles = << >>)
    /\ StartOfRoleTrace =>
          /\ TraceBuffersEmpty
          /\ Len(roles) = Cardinality(DistinctRoles(rels[itr]))
          /\ { roles[x] : x \in 1..Len(roles) } = DistinctRoles(rels[itr])
    /\ NoCarryOver

\* the second role of a relation is about to be traced, after a polygon
\* relation and the first role have left their entries
C12_Witness ==
    /\ StartOfRoleTrace
    /\ itr = 2
    /\ role_i = 2
    /\ rels[1].ispoly
    /\ Len(rels[1].ways) = 2
    /\ Len(id_vec_mp) = 1
    /\ Len(id_vec_ls) = 1
    /\ TraceBuffersEmpty

====
